---- MODULE Spec2Model ----
(***************************************************************************)
(* Model of the Stream Deck bluetooth plugin:                              *)
(*   src/bluetooth-python/src/stream_deck.py  (StreamDeckExchange,         *)
(*                                             _BluetoothMessageController)*)
(*   src/bluetooth-python/src/bluetooth.py    (the device capability)      *)
(*                                                                         *)
(* The start() coroutine is modelled by its position pc; every value of pc *)
(* is one of its await points (ws_connect, the registration send, the next *)
(* inbound message, the send of a reply, websocket.close()), so any other  *)
(* coroutine (notify_state_change, called by the delegate) and the         *)
(* environment (the host, the network, the operating system that owns the  *)
(* bluetooth power state) may act between two steps of it.  The code that  *)
(* runs between two awaits is one atomic action.                           *)
(*                                                                         *)
(* websockets' send() writes the frame before it first suspends (it then   *)
(* awaits the drain); so a send is "frame appended to sent" when it is     *)
(* started on an open connection, followed by a completion step.           *)
(* assert statements are enabled (python without -O).                      *)
(***************************************************************************)
EXTENDS Integers, Sequences, FiniteSets, TLC

(* ---------------------------- bounds ----------------------------------- *)
\* The operations the environment invokes on one exchange: calls of start,
\* inbound messages delivered by the host, calls of notify_state_change.
MaxOps == 4

(* ---------------------------- values ----------------------------------- *)
None == "<None>"          \* python None
NoField == "<absent>"     \* a key the JSON object does not have
JsonNull == "<null>"      \* a JSON null value
NoReply == [event |-> None]                 \* handle_event returned None
NoMessage == [kind |-> None, event |-> NoField, context |-> NoField]
NoCall == [event |-> "<nocall>", context |-> None, exc |-> None,
           reply |-> NoReply, toggles |-> 0, gets |-> 0,
           devBefore |-> 0, devAfter |-> 0, ext |-> FALSE]

ContextValues == {"", "a", "b"}      \* context strings the host may send
EventValues == {"keyUp", "willAppear", "other"}
States == {0, 1}

\* Inbound websocket messages: JSON objects with or without the two keys the
\* code reads, JSON that is not an object, text that is not JSON, and bytes
\* that are not UTF-8.
ObjectMessages ==
    [kind : {"object"},
     event : EventValues \cup {NoField},
     context : ContextValues \cup {NoField, JsonNull}]
BrokenMessages ==
    [kind : {"nonobject", "garbage", "badbytes"}, event : {NoField}, context : {NoField}]
Messages == ObjectMessages \cup BrokenMessages

NotifyMessageKeyUp == [kind |-> "object", event |-> "keyUp", context |-> NoField]

\* stream_deck.py:48, the literal '{"event": "willAppear"}'
NotifyMessage == [kind |-> "object", event |-> "willAppear", context |-> NoField]

\* Exceptions.  CancelledError derives from BaseException, all others from
\* Exception.
ExceptionSubclasses ==
    {"UnicodeDecodeError", "JSONDecodeError", "AttributeError", "KeyError",
     "AssertionError", "DeviceError", "ConnectionClosed"}
AllExceptions == ExceptionSubclasses \cup {"CancelledError", "OSError"}

(* ------------------------ bluetooth.py --------------------------------- *)
\* bluetooth.py:48-51
_next_state(current) == IF current = 1 THEN 0 ELSE 1

get_bluetooth_state_inverted(dev) == _next_state(dev)

\* bluetooth.py:44-45: the value _bs_getter() returns now
get_bluetooth_state(dev) == dev

toggle_bluetooth_state_late_read(dev, ext) ==
    LET between == IF ext THEN 1 - dev ELSE dev
        new_state == _next_state(between)
    IN [read |-> between, between |-> between,
        device |-> new_state, ret |-> new_state]

\* bluetooth.py:37-41.  dev is what _bs_getter() returns; ext tells whether
\* the power state is changed from outside between the read and the write;
\* the write of new_state is the last word either way.
toggle_bluetooth_state(dev, ext) ==
    LET current_state == dev
        new_state == _next_state(current_state)
        between == IF ext THEN 1 - dev ELSE dev
    IN [read |-> current_state, between |-> between,
        device |-> new_state, ret |-> new_state]

(* ------------------- _BluetoothMessageController ----------------------- *)
\* stream_deck.py:113-120
_handle_will_appear(ctx, dev) ==
    [event |-> "setState", context |-> ctx, state |-> get_bluetooth_state(dev)]

\* What a call of handle_event leaves behind: the exception it raised (None:
\* it returned), the reply it returned, the device state afterwards, and the
\* number of invocations of toggle_bluetooth_state and get_bluetooth_state.
Outcome(exc, reply, dev, toggles, gets) ==
    [exc |-> exc, reply |-> reply, device |-> dev, toggles |-> toggles, gets |-> gets]

handle_event_key_up_reports(payload, ctx, dev, capFail, ext) ==
    IF payload.event = NoField
    THEN Outcome("KeyError", NoReply, dev, 0, 0)
    ELSE IF payload.event = "keyUp"
    THEN IF capFail
         THEN Outcome("DeviceError", NoReply, dev, 1, 0)
         ELSE Outcome(None, _handle_will_appear(ctx, _next_state(dev)),
                      _next_state(dev), 1, 1)
    ELSE IF payload.event = "willAppear"
    THEN IF capFail
         THEN Outcome("DeviceError", NoReply, dev, 0, 1)
         ELSE Outcome(None, _handle_will_appear(ctx, dev), dev, 0, 1)
    ELSE Outcome(None, NoReply, dev, 0, 0)

handle_event_default_reports(payload, ctx, dev, capFail, ext) ==
    IF payload.event = NoField
    THEN Outcome("KeyError", NoReply, dev, 0, 0)
    ELSE IF payload.event = "keyUp"
    THEN IF capFail
         THEN Outcome("DeviceError", NoReply, dev, 1, 0)
         ELSE Outcome(None, NoReply, toggle_bluetooth_state(dev, ext).device, 1, 0)
    ELSE IF capFail
         THEN Outcome("DeviceError", NoReply, dev, 0, 1)
         ELSE Outcome(None, _handle_will_appear(ctx, dev), dev, 0, 1)

handle_event_default_toggles(payload, ctx, dev, capFail, ext) ==
    IF payload.event = NoField
    THEN Outcome("KeyError", NoReply, dev, 0, 0)
    ELSE IF payload.event = "willAppear"
    THEN IF capFail
         THEN Outcome("DeviceError", NoReply, dev, 0, 1)
         ELSE Outcome(None, _handle_will_appear(ctx, dev), dev, 0, 1)
    ELSE IF capFail
         THEN Outcome("DeviceError", NoReply, dev, 1, 0)
         ELSE Outcome(None, NoReply, _next_state(dev), 1, 0)

\* stream_deck.py:98-111.  capFail: the device capability raises in this
\* call; ext: see toggle_bluetooth_state.
handle_event(payload, ctx, dev, capFail, ext) ==
    IF payload.event = NoField       \* payload['event'], line 103
    THEN Outcome("KeyError", NoReply, dev, 0, 0)
    ELSE IF payload.event = "keyUp"
    THEN IF capFail
         THEN Outcome("DeviceError", NoReply, dev, 1, 0)
         ELSE Outcome(None, NoReply, toggle_bluetooth_state(dev, ext).device, 1, 0)
    ELSE IF payload.event = "willAppear"
    THEN IF capFail
         THEN Outcome("DeviceError", NoReply, dev, 0, 1)
         ELSE Outcome(None, _handle_will_appear(ctx, dev), dev, 0, 1)
    ELSE Outcome(None, NoReply, dev, 0, 0)

(* ------------------------ StreamDeckExchange --------------------------- *)
\* dict.get('context'): None for a missing key and for a JSON null
PayloadGetContext(payload) ==
    IF payload.context \in {NoField, JsonNull} THEN None ELSE payload.context

_maybe_store_context_first_wins(payload, stored) ==
    LET c == PayloadGetContext(payload)
    IN IF c # None /\ stored = None
       THEN [context |-> c, logged |-> TRUE]
       ELSE [context |-> stored, logged |-> FALSE]

_maybe_store_context_always(payload, stored) ==
    LET c == PayloadGetContext(payload)
    IN IF c # None
       THEN [context |-> c, logged |-> TRUE]
       ELSE [context |-> stored, logged |-> FALSE]

\* stream_deck.py:89-93: the stored context afterwards, and whether
\* 'Got new plugin context' was logged
_maybe_store_context(payload, stored) ==
    LET c == PayloadGetContext(payload)
    IN IF c # None /\ c # stored
       THEN [context |-> c, logged |-> TRUE]
       ELSE [context |-> stored, logged |-> FALSE]

ContextAssertStripped(ctx) == TRUE

\* stream_deck.py:77: assert self._context is not None
ContextAssert(ctx) == ctx # None

\* stream_deck.py:70-74: message.decode('utf-8') and json.loads(message);
\* the exception they raise, or None
ParseError(message) ==
    CASE message.kind = "badbytes" -> "UnicodeDecodeError"
      [] message.kind = "garbage" -> "JSONDecodeError"
      [] OTHER -> None

_process_inbound_message_rollback(message, stored, dev, capFail, ext) ==
    LET untouched == [exc |-> None, context |-> stored, logged |-> FALSE,
                      call |-> NoCall, reply |-> NoReply, device |-> dev]
    IN IF ParseError(message) # None
       THEN [untouched EXCEPT !.exc = ParseError(message)]
       ELSE IF message.kind = "nonobject"
       THEN [untouched EXCEPT !.exc = "AttributeError"]
       ELSE LET st == _maybe_store_context(message, stored)
            IN IF ~ContextAssert(st.context)
               THEN [untouched EXCEPT !.exc = "AssertionError"]
               ELSE LET h == handle_event(message, st.context, dev, capFail, ext)
                    IN [exc |-> h.exc,
                        context |-> IF h.exc # None THEN stored ELSE st.context,
                        logged |-> st.logged,
                        call |-> [event |-> message.event, context |-> st.context,
                                  exc |-> h.exc, reply |-> h.reply,
                                  toggles |-> h.toggles, gets |-> h.gets,
                                  devBefore |-> dev, devAfter |-> h.device,
                                  ext |-> ext /\ h.toggles = 1 /\ h.exc = None],
                        reply |-> h.reply, device |-> h.device]

\* stream_deck.py:66-80: _process_inbound_message up to the send of the
\* reply.  stored is self._context before the call.
_process_inbound_message(message, stored, dev, capFail, ext) ==
    LET untouched == [exc |-> None, context |-> stored, logged |-> FALSE,
                      call |-> NoCall, reply |-> NoReply, device |-> dev]
    IN IF ParseError(message) # None
       THEN [untouched EXCEPT !.exc = ParseError(message)]
       ELSE IF message.kind = "nonobject"
       THEN [untouched EXCEPT !.exc = "AttributeError"]   \* parsed.get
       ELSE LET st == _maybe_store_context(message, stored)
            IN IF ~ContextAssert(st.context)
               THEN [untouched EXCEPT !.exc = "AssertionError",
                                      !.context = st.context,
                                      !.logged = st.logged]
               ELSE LET h == handle_event(message, st.context, dev, capFail, ext)
                    IN [exc |-> h.exc, context |-> st.context,
                        logged |-> st.logged,
                        call |-> [event |-> message.event, context |-> st.context,
                                  exc |-> h.exc, reply |-> h.reply,
                                  toggles |-> h.toggles, gets |-> h.gets,
                                  devBefore |-> dev, devAfter |-> h.device,
                                  ext |-> ext /\ h.toggles = 1 /\ h.exc = None],
                        reply |-> h.reply, device |-> h.device]

CaughtOnlyParse(exc) == exc = "JSONDecodeError"

\* stream_deck.py:60: except Exception
Caught(exc) == exc \in ExceptionSubclasses

\* stream_deck.py:34-37
RegistrationMessage == [event |-> "registerPlugin", uuid |-> "plugin-uuid"]


(* ----------------------------- state ----------------------------------- *)
VARIABLES
    pc,           \* where the start() coroutine is: "idle", "connecting",
                  \* "registering", "receiving", "sending", "closing", "done"
    websocket,    \* self._websocket: None, or the connection, "open"/"closed"
    context,      \* self._context
    device,       \* the bluetooth power state the operating system holds
    sent,         \* the frames written to the current connection, in order
    pending,      \* the exception start() is unwinding with or raised, or None
    result,       \* how the last start() ended: None, "returned", "raised"
    established,  \* ws_connect succeeded in the current call of start()
    errorLogged,  \* line 64 has logged an exception in this session
    nops,         \* operations invoked so far (see MaxOps)
    npc,          \* where notify_state_change is: "idle" or "sending"
    carried,      \* the context of the latest message that carried one
    last          \* what the step that led to this state did (see Step)

vars == <<pc, websocket, context, device, sent, pending, result, established,
          errorLogged, nops, npc, carried, last>>

loopVars == <<pc, pending, result, established, errorLogged>>
notifyVars == <<npc>>

\* The record kept in last: the operation, and for a step that ran
\* _process_inbound_message the message, self._context before it, whether
\* a new context was stored, the handle_event invocation (NoCall if there
\* was none), the exception raised to the operation's caller (exc) and the
\* exception handed to logger.error by line 64 (logged).
Step(op) ==
    [op |-> op, msg |-> NoMessage, before |-> None, newctx |-> FALSE,
     call |-> NoCall, exc |-> None, logged |-> None]

\* The context value message m carries once it is parsed, if any; else old.
Carried(m, old) ==
    IF m.kind = "object" /\ m.context \in ContextValues THEN m.context ELSE old

\* A step no property needs to look at.
Quiet == Step("quiet")

\* stream_deck.py:17-21, and a device in either power state
Init ==
    /\ pc = "idle"
    /\ websocket = None
    /\ context = None
    /\ device \in States
    /\ sent = <<>>
    /\ pending = None
    /\ result = None
    /\ established = FALSE
    /\ errorLogged = FALSE
    /\ nops = 0
    /\ npc = "idle"
    /\ carried = None
    /\ last = Quiet

(* --------------------------- start() ----------------------------------- *)
StartResetsContext ==
    /\ pc \in {"idle", "done"}
    /\ nops < MaxOps
    /\ nops' = nops + 1
    /\ pc' = "connecting"
    /\ pending' = None
    /\ result' = None
    /\ established' = FALSE
    /\ errorLogged' = FALSE
    /\ context' = None
    /\ last' = Quiet
    /\ UNCHANGED <<websocket, device, sent, carried>>
    /\ UNCHANGED notifyVars

\* stream_deck.py:23-30: start is called and awaits ws_connect.  A further
\* call on the same exchange is possible once the previous one has ended.
Start ==
    /\ pc \in {"idle", "done"}
    /\ nops < MaxOps
    /\ nops' = nops + 1
    /\ pc' = "connecting"
    /\ pending' = None
    /\ result' = None
    /\ established' = FALSE
    /\ errorLogged' = FALSE
    /\ last' = Quiet
    /\ UNCHANGED <<websocket, context, device, sent, carried>>
    /\ UNCHANGED notifyVars

ConnectDoneUnregistered ==
    /\ pc = "connecting"
    /\ websocket' = "open"
    /\ established' = TRUE
    /\ sent' = <<>>
    /\ pc' = "registering"
    /\ last' = Quiet
    /\ UNCHANGED <<context, device, pending, result, errorLogged, nops, carried>>
    /\ UNCHANGED notifyVars

\* stream_deck.py:30-37: ws_connect returns the new connection; the code up
\* to the first suspension of the registration send runs without a yield,
\* so the registration frame is the first frame on the new connection.
ConnectDone ==
    /\ pc = "connecting"
    /\ websocket' = "open"
    /\ established' = TRUE
    /\ sent' = <<RegistrationMessage>>
    /\ pc' = "registering"
    /\ last' = Quiet
    /\ UNCHANGED <<context, device, pending, result, errorLogged, nops, carried>>
    /\ UNCHANGED notifyVars

\* stream_deck.py:30: ws_connect raises (connection refused, cancelled):
\* start raises, self._websocket keeps its previous value
ConnectFail ==
    /\ pc = "connecting"
    /\ pc' = "done"
    /\ result' = "raised"
    /\ pending' = "OSError"
    /\ last' = [Step("connectfail") EXCEPT !.exc = "OSError"]
    /\ UNCHANGED <<websocket, context, device, sent, established, errorLogged, nops, carried>>
    /\ UNCHANGED notifyVars

\* stream_deck.py:34-38: the registration send completes
RegisterDone ==
    /\ pc = "registering"
    /\ websocket = "open"
    /\ pc' = "receiving"
    /\ last' = Quiet
    /\ UNCHANGED <<websocket, context, device, sent, pending, result,
                   established, errorLogged, nops, carried>>
    /\ UNCHANGED notifyVars

\* stream_deck.py:34-37: the registration send raises.  The await is not
\* inside the try of line 40, so start raises without calling close():
\* with ConnectionClosed the connection is lost anyway, with CancelledError
\* (the task is cancelled while it awaits the send) it is still open.
RegisterFail(exc) ==
    /\ pc = "registering"
    /\ exc \in {"ConnectionClosed", "CancelledError"}
    /\ websocket' = IF exc = "ConnectionClosed" THEN "closed" ELSE websocket
    /\ pc' = "done"
    /\ result' = "raised"
    /\ pending' = exc
    /\ last' = [Step("registerfail") EXCEPT !.exc = exc]
    /\ UNCHANGED <<context, device, sent, established, errorLogged, nops, carried>>
    /\ UNCHANGED notifyVars

(* ---------------------- _message_receive_loop -------------------------- *)
ReceiveReadyOverlapping ==
    /\ pc \in {"receiving", "sending"}
    /\ websocket = "open"

\* stream_deck.py:57-59: the loop takes the next message only when the body
\* of the previous iteration, the awaited send of its reply included, is
\* over, and the connection delivers one only while it is open.
ReceiveReady ==
    /\ pc = "receiving"
    /\ websocket = "open"

\* stream_deck.py:57-64 with 66-81: the connection yields message m, which
\* is processed up to the first suspension of the send of the reply.
Receive(m, capFail, ext) ==
    /\ ReceiveReady
    /\ nops < MaxOps
    /\ nops' = nops + 1
    /\ LET r == _process_inbound_message(m, context, device, capFail, ext)
           step == [Step("receive") EXCEPT !.msg = m, !.before = context,
                                           !.newctx = r.logged, !.call = r.call]
       IN /\ context' = r.context
          /\ device' = r.device
          /\ carried' = Carried(m, carried)
          /\ IF r.exc # None
             THEN IF Caught(r.exc)
                  THEN /\ errorLogged' = TRUE
                       /\ last' = [step EXCEPT !.logged = r.exc]
                       /\ pc' = "receiving"
                       /\ UNCHANGED <<sent, pending>>
                  ELSE /\ pending' = r.exc
                       /\ last' = [step EXCEPT !.exc = r.exc]
                       /\ pc' = "closing"
                       /\ UNCHANGED <<sent, errorLogged>>
             ELSE IF r.reply = NoReply
             THEN /\ last' = step
                  /\ pc' = "receiving"
                  /\ UNCHANGED <<sent, pending, errorLogged>>
             ELSE /\ sent' = Append(sent, r.reply)
                  /\ last' = step
                  /\ pc' = "sending"
                  /\ UNCHANGED <<pending, errorLogged>>
    /\ UNCHANGED <<websocket, result, established>>
    /\ UNCHANGED notifyVars

\* stream_deck.py:81, 86-87: the send of the reply completes
SendDone ==
    /\ pc = "sending"
    /\ websocket = "open"
    /\ pc' = "receiving"
    /\ last' = Quiet
    /\ UNCHANGED <<websocket, context, device, sent, pending, result,
                   established, errorLogged, nops, carried>>
    /\ UNCHANGED notifyVars

\* stream_deck.py:81 inside the try of 58-64: the send of the reply raises.
\* ConnectionClosed is an Exception and is handled by line 60 like any
\* other; CancelledError is not and unwinds to the finally of line 43.
SendFail(exc) ==
    /\ pc = "sending"
    /\ exc \in {"ConnectionClosed", "CancelledError"}
    /\ websocket' = IF exc = "ConnectionClosed" THEN "closed" ELSE websocket
    /\ IF Caught(exc)
       THEN /\ errorLogged' = TRUE
            /\ last' = [Step("sendfail") EXCEPT !.logged = exc]
            /\ pc' = "receiving"
            /\ UNCHANGED pending
       ELSE /\ pending' = exc
            /\ last' = [Step("sendfail") EXCEPT !.exc = exc]
            /\ pc' = "closing"
            /\ UNCHANGED errorLogged
    /\ UNCHANGED <<context, device, sent, result, established, nops, carried>>
    /\ UNCHANGED notifyVars

\* the receive stays pending on a closed connection
RecvEndHangs(exc) ==
    /\ pc = "receiving"
    /\ websocket = "closed"
    /\ exc \in {None, "ConnectionClosed"}
    /\ UNCHANGED vars

\* stream_deck.py:57: the connection is closed while the loop waits for the
\* next message: the iteration ends (ConnectionClosedOK, exc = None) or
\* raises ConnectionClosedError
RecvEnd(exc) ==
    /\ pc = "receiving"
    /\ websocket = "closed"
    /\ exc \in {None, "ConnectionClosed"}
    /\ pending' = exc
    /\ pc' = "closing"
    /\ last' = [Step("recvend") EXCEPT !.exc = exc]
    /\ UNCHANGED <<websocket, context, device, sent, result, established,
                   errorLogged, nops, carried>>
    /\ UNCHANGED notifyVars

\* stream_deck.py:57: the task is cancelled while the loop waits
RecvCancelled ==
    /\ pc = "receiving"
    /\ pending' = "CancelledError"
    /\ pc' = "closing"
    /\ last' = [Step("recvend") EXCEPT !.exc = "CancelledError"]
    /\ UNCHANGED <<websocket, context, device, sent, result, established,
                   errorLogged, nops, carried>>
    /\ UNCHANGED notifyVars

\* stream_deck.py:43-44: finally: await self._websocket.close(); then start
\* returns, or raises what it was unwinding with
Close ==
    /\ pc = "closing"
    /\ websocket' = "closed"
    /\ pc' = "done"
    /\ result' = IF pending = None THEN "returned" ELSE "raised"
    /\ last' = [Step("close") EXCEPT !.exc = pending]
    /\ UNCHANGED <<context, device, sent, pending, established, errorLogged, nops, carried>>
    /\ UNCHANGED notifyVars

(* ---------------------- notify_state_change ---------------------------- *)
\* stream_deck.py:46-48 with 66-87: the delegate calls notify_state_change,
\* which runs _process_inbound_message on NotifyMessage outside any try;
\* whatever is raised reaches the caller.
Notify(capFail) ==
    /\ npc = "idle"
    /\ nops < MaxOps
    /\ nops' = nops + 1
    /\ LET r == _process_inbound_message(NotifyMessage, context, device, capFail, FALSE)
           step == [Step("notify") EXCEPT !.msg = NotifyMessage, !.before = context,
                                          !.newctx = r.logged, !.call = r.call]
       IN /\ context' = r.context
          /\ device' = r.device
          /\ carried' = Carried(NotifyMessage, carried)
          /\ IF r.exc # None
             THEN /\ last' = [step EXCEPT !.exc = r.exc]
                  /\ npc' = "idle"
                  /\ UNCHANGED sent
             ELSE IF websocket = None
             THEN /\ last' = [step EXCEPT !.exc = "AssertionError"]   \* line 84
                  /\ npc' = "idle"
                  /\ UNCHANGED sent
             ELSE IF websocket = "closed"
             THEN /\ last' = [step EXCEPT !.exc = "ConnectionClosed"]
                  /\ npc' = "idle"
                  /\ UNCHANGED sent
             ELSE /\ sent' = Append(sent, r.reply)
                  /\ last' = step
                  /\ npc' = "sending"
    /\ UNCHANGED websocket
    /\ UNCHANGED loopVars

\* stream_deck.py:86-87: the send started by notify_state_change completes
NotifySendDone ==
    /\ npc = "sending"
    /\ websocket = "open"
    /\ npc' = "idle"
    /\ last' = Quiet
    /\ UNCHANGED <<websocket, context, device, sent, nops, carried>>
    /\ UNCHANGED loopVars

\* stream_deck.py:86: the send started by notify_state_change raises
NotifySendFail(exc) ==
    /\ npc = "sending"
    /\ exc \in {"ConnectionClosed", "CancelledError"}
    /\ websocket' = IF exc = "ConnectionClosed" THEN "closed" ELSE websocket
    /\ npc' = "idle"
    /\ last' = [Step("notifyfail") EXCEPT !.exc = exc]
    /\ UNCHANGED <<context, device, sent, nops, carried>>
    /\ UNCHANGED loopVars

(* --------------------------- environment ------------------------------- *)
\* The peer or the network closes an open connection.
TransportDrop ==
    /\ websocket = "open"
    /\ websocket' = "closed"
    /\ last' = Quiet
    /\ UNCHANGED <<context, device, sent, nops, carried>>
    /\ UNCHANGED loopVars
    /\ UNCHANGED notifyVars

\* The bluetooth power state is switched outside the plugin.
ExternalChange ==
    /\ device' = 1 - device
    /\ last' = Quiet
    /\ UNCHANGED <<websocket, context, sent, nops, carried>>
    /\ UNCHANGED loopVars
    /\ UNCHANGED notifyVars

Next ==
    \/ Start
    \/ ConnectDone
    \/ ConnectFail
    \/ RegisterDone
    \/ \E exc \in {"ConnectionClosed", "CancelledError"} : RegisterFail(exc)
    \/ \E m \in Messages, capFail \in BOOLEAN, ext \in BOOLEAN : Receive(m, capFail, ext)
    \/ SendDone
    \/ \E exc \in {"ConnectionClosed", "CancelledError"} : SendFail(exc)
    \/ \E exc \in {None, "ConnectionClosed"} : RecvEnd(exc)
    \/ RecvCancelled
    \/ Close
    \/ \E capFail \in BOOLEAN : Notify(capFail)
    \/ NotifySendDone
    \/ \E exc \in {"ConnectionClosed", "CancelledError"} : NotifySendFail(exc)
    \/ TransportDrop
    \/ ExternalChange

Spec == Init /\ [][Next]_vars

\* The event loop resumes a coroutine whose await has completed: the
\* iteration of line 57 ends once the connection is closed, and the close()
\* of line 44 completes.
FairSpec ==
    /\ Spec
    /\ WF_vars(\E exc \in {None, "ConnectionClosed"} : RecvEnd(exc))
    /\ WF_vars(Close)

(* ============================ properties =============================== *)
Dispatched == last.op \in {"receive", "notify"} /\ last.call # NoCall

SetState(ctx, state) == [event |-> "setState", context |-> ctx, state |-> state]

(* C1: every willAppear the controller handles to the end, from the host or
   from notify_state_change, returns the one event setState with the context
   handed in and payload.state equal to the power state the device has at
   that call: get_bluetooth_state is invoked once in the call, nothing is
   toggled, and the reported state is the state of the device at dispatch. *)
C1_WillAppearReportsCurrentState ==
    (Dispatched /\ last.call.event = "willAppear" /\ last.call.exc = None) =>
        /\ last.call.reply = SetState(last.call.context, last.call.devBefore)
        /\ last.call.reply.state = device
        /\ last.call.gets = 1
        /\ last.call.toggles = 0

\* a willAppear answered with the state a toggle or an outside change left
C1_Witness ==
    /\ Dispatched
    /\ last.call.event = "willAppear"
    /\ last.call.exc = None
    /\ last.call.context = "a"
    /\ last.call.reply = SetState("a", 1)
    /\ nops >= 3

(* C2: every keyUp makes handle_event invoke toggle_bluetooth_state exactly
   once and return no event; get_bluetooth_state is not invoked. *)
C2_KeyUpTogglesOnceNoReply ==
    (Dispatched /\ last.call.event = "keyUp") =>
        /\ last.call.reply = NoReply
        /\ last.call.toggles = 1
        /\ last.call.gets = 0

C2_Witness ==
    /\ Dispatched
    /\ last.call.event = "keyUp"
    /\ last.call.exc = None
    /\ last.call.devAfter # last.call.devBefore

(* C3: an event whose tag is neither keyUp nor willAppear makes handle_event
   return nothing without invoking the device capability; the step leaves the
   device state and the frames sent as they were. *)
C3_UnknownEventIsNoOp ==
    [][(last'.op \in {"receive", "notify"} /\ last'.call # NoCall
          /\ last'.call.event \notin {"keyUp", "willAppear", NoField}) =>
        /\ last'.call.exc = None
        /\ last'.call.reply = NoReply
        /\ last'.call.toggles = 0
        /\ last'.call.gets = 0
        /\ device' = device
        /\ sent' = sent]_vars

C3_Witness ==
    /\ Dispatched
    /\ last.op = "receive"
    /\ last.call.event = "other"
    /\ pc = "receiving"

(* C4: a message-local failure in the receive loop (a message that does not
   parse, one without an event key, the assertion on a missing context, an
   error of the device capability) leaves the loop waiting for the next
   message on the connection as it was; and once such a failure has been
   logged, a well-formed willAppear that carries a context is still handled
   and its setState frame written. *)
C4_LocalFailureKeepsLoopRunning ==
    [][/\ (last'.op = "receive"
             /\ (last'.logged # None \/ last'.exc # None
                   \/ last'.msg.kind # "object" \/ last'.msg.event = NoField
                   \/ last'.call = NoCall \/ last'.call.exc # None)) =>
            /\ last'.logged # None
            /\ last'.exc = None
            /\ pc' = "receiving"
            /\ websocket' = "open"
            /\ sent' = sent
            /\ pending' = None
       /\ (errorLogged /\ last'.op = "receive" /\ last'.msg.kind = "object"
             /\ last'.msg.event = "willAppear"
             /\ last'.msg.context \in ContextValues
             /\ last'.call.exc = None) =>
            sent' = Append(sent, SetState(last'.msg.context, device))]_vars

C4_Witness ==
    /\ errorLogged
    /\ last.op = "receive"
    /\ last.msg.event = "willAppear"
    /\ last.call.reply.event = "setState"
    /\ sent[Len(sent)] = last.call.reply
    /\ websocket = "open"

(* C5: whenever start has ended after ws_connect succeeded, the connection
   has been closed. *)
C5_ClosedOnEveryExit ==
    (pc = "done" /\ established) => websocket = "closed"

(* C6: notify_state_change called while no context is stored is a silent
   no-op: nothing is raised to the caller, the controller is not called,
   no send is started and the stored context stays absent. *)
C6_NotifyWithoutContextIsSilent ==
    (last.op = "notify" /\ last.before = None) =>
        /\ last.exc = None
        /\ last.call = NoCall
        /\ npc = "idle"
        /\ context = None

(* C7: a failure of the send of a reply in the receive loop is never logged
   and swallowed: it unwinds out of the loop to the finally of start. *)
C7_SendFailurePropagates ==
    (last.op = "sendfail") => (last.logged = None /\ pc = "closing")

(* C8 as claimed: every event handed to the controller and every setState
   frame carries a context that is neither None nor the empty string, the
   one handed over being the stored context; the registration is the only
   frame without a context. *)
C8_ContextNonEmpty ==
    /\ Dispatched => (last.call.context \notin {None, ""}
                        /\ last.call.context = context)
    /\ \A i \in 1..Len(sent) :
          \/ sent[i] = RegistrationMessage
          \/ (sent[i].event = "setState" /\ sent[i].context \notin {None, ""})

(* C8 as amended: every event handed to the controller and every setState
   frame carries a context that is not None (it may be the empty string),
   the one handed over being the stored context at that dispatch; the
   registration is the only frame without a context. *)
C8_ContextPresent ==
    /\ Dispatched => (last.call.context # None /\ last.call.context = context)
    /\ \A i \in 1..Len(sent) :
          \/ sent[i] = RegistrationMessage
          \/ (sent[i].event = "setState" /\ sent[i].context # None)

C8_Witness ==
    /\ Dispatched
    /\ last.call.event = "willAppear"
    /\ last.call.context = ""
    /\ \E i \in 1..Len(sent) : sent[i] = SetState("", device)

(* C9: on every connection start has established, the registration frame is
   the first frame and occurs once; nothing is received before it is
   written, and no setState, one started by a concurrent
   notify_state_change included, precedes it. *)
C9_RegistrationFirstAndOnce ==
    /\ (websocket # None \/ established) =>
          /\ Len(sent) >= 1
          /\ sent[1] = RegistrationMessage
          /\ \A i \in 2..Len(sent) : sent[i] # RegistrationMessage
    /\ pc \in {"registering", "receiving", "sending", "closing"} => established
    /\ last.op = "receive" => established

\* notify_state_change writes its setState while start still awaits the
\* registration send of a further session
C9_Witness ==
    /\ pc = "registering"
    /\ last.op = "notify"
    /\ Len(sent) = 2
    /\ sent[2].event = "setState"

(* C10: a message whose context equals the one the previous context-carrying
   message had changes nothing and logs no new context; a message whose
   context differs from the stored one stores it, in that one step, and a
   message without a context leaves the stored one alone. *)
C10_ContextUpdateIdempotent ==
    [][(last'.op \in {"receive", "notify"} /\ last'.msg.kind = "object") =>
        LET c == IF last'.msg.context \in ContextValues
                 THEN last'.msg.context ELSE None
        IN /\ (c # None /\ c = carried) => (context' = context /\ ~last'.newctx)
           /\ (c # None /\ c # context) => (context' = c /\ last'.newctx)
           /\ c = None => (context' = context /\ ~last'.newctx)]_vars

\* the second of two messages with context "a"
C10_Witness ==
    /\ last.op = "receive"
    /\ last.msg.context = "a"
    /\ last.before = "a"
    /\ ~last.newctx
    /\ context = "a"

(* C11: within one call of start the connection state only moves forward
   along Disconnected, Connecting, Registered, Receiving, Closed; Receiving
   is entered only from Registered, with the registration frame written;
   and once start has ended (Closed) the exchange leaves that state only by
   a new call of start, dispatches no inbound message and writes no frame
   on the connection. *)
Rank(p) ==
    CASE p = "idle" -> 0
      [] p = "connecting" -> 1
      [] p = "registering" -> 2
      [] p \in {"receiving", "sending", "closing"} -> 3
      [] p = "done" -> 4

C11_StateMachineClosedTerminal ==
    [][/\ pc' # "connecting" => Rank(pc') >= Rank(pc)
       /\ (Rank(pc') = 3 /\ Rank(pc) # 3) =>
             (pc = "registering" /\ sent[1] = RegistrationMessage)
       /\ (pc = "done" /\ pc' # "done") =>
             (pc' = "connecting" /\ nops' = nops + 1)
       /\ (pc = "done" /\ pc' = "done") =>
             (sent' = sent /\ last'.op # "receive")]_vars

(* C12 as claimed: events are handled strictly one at a time: while the
   handling of one event is still awaiting the send of its reply, no other
   event is being handled, notify_state_change included. *)
C12_OneHandlingAtATime ==
    ~(pc = "sending" /\ npc = "sending")

(* C12 as amended: the receive loop takes the next inbound message only
   when the handling of the previous one, the send of its reply included,
   is over; notify_state_change is not serialised with it and may dispatch
   while the loop awaits a send (and the loop may take a message while
   notify_state_change awaits its send); every reply is written in the step
   that dispatched its event, at the end of the frames written so far, so
   setState frames are in dispatch order. *)
C12_LoopSequentialRepliesInDispatchOrder ==
    [][/\ last'.op = "receive" => (pc = "receiving" /\ pc' \in {"receiving", "sending", "closing"})
       /\ (last'.op \in {"receive", "notify"} /\ last'.call.reply # NoReply
             /\ websocket = "open") =>
            sent' = Append(sent, last'.call.reply)
       /\ \/ sent' = sent
          \/ Len(sent') = Len(sent) + 1 /\ SubSeq(sent', 1, Len(sent)) = sent
          \/ pc = "connecting" /\ sent' = <<RegistrationMessage>>]_vars

\* notify_state_change dispatches while the loop awaits the send of a reply;
\* its frame follows the loop's
C12_Witness ==
    /\ last.op = "notify"
    /\ pc = "sending"
    /\ npc = "sending"
    /\ Len(sent) = 3
    /\ sent[3] = last.call.reply

(* C13: notify_state_change called with a context stored and the connection
   open, the device capability answering, writes exactly one frame,
   setState with the stored context and the current device state, raises
   nothing in that step, and leaves the stored context and the device state
   as they were. *)
C13_NotifyReportsCurrentState ==
    [][(last'.op = "notify" /\ context # None /\ websocket = "open"
          /\ last'.call.exc # "DeviceError") =>
        /\ sent' = Append(sent, SetState(context, device))
        /\ context' = context
        /\ device' = device
        /\ last'.exc = None
        /\ last'.call.toggles = 0]_vars

\* after willAppear with context "a" answered with state 1 and one more
\* inbound message, notify_state_change reports state 0
C13_Witness ==
    /\ last.op = "notify"
    /\ nops = 4
    /\ last.call.devBefore = 0
    /\ sent = <<RegistrationMessage, SetState("a", 1), SetState("a", 0)>>

(* C14: every well-formed keyUp message the receive loop takes, with or
   without a context key and with or without a context stored, reaches the
   controller, toggles the device state exactly once (the device capability
   answering) and writes no frame. *)
C14_KeyUpAlwaysToggles ==
    (last.op = "receive" /\ last.msg.kind = "object" /\ last.msg.event = "keyUp"
       /\ last.call.exc # "DeviceError") =>
        /\ last.call.toggles = 1
        /\ last.call.devAfter = 1 - last.call.devBefore
        /\ device = last.call.devAfter
        /\ last.logged = None
        /\ pc = "receiving"

(* C15: toggle_bluetooth_state called with the device in state s leaves the
   device in state 1 - s and returns 1 - s, also when the state is changed
   from outside between its read and its write; a second toggle restores s.
   The keyUp steps of the exchange, which apply it, flip the device. *)
C15_ToggleFlipsAndReturnsNewState ==
    /\ \A ext \in BOOLEAN :
          LET t == toggle_bluetooth_state(device, ext)
          IN /\ t.read = device
             /\ t.device = 1 - device
             /\ t.ret = 1 - device
             /\ \A ext2 \in BOOLEAN :
                   toggle_bluetooth_state(t.device, ext2).device = device
    /\ (Dispatched /\ last.call.event = "keyUp" /\ last.call.exc = None) =>
          /\ last.call.devAfter = 1 - last.call.devBefore
          /\ device = last.call.devAfter

\* a keyUp whose toggle was crossed by an outside change
C15_Witness ==
    /\ Dispatched
    /\ last.call.event = "keyUp"
    /\ last.call.exc = None
    /\ last.call.ext
    /\ last.call.devBefore = 1
    /\ device = 0

(* C16: when the connection is closed while the receive loop waits for the
   next message, the pending receive ends: no inbound message is dispatched
   on the closed connection, the loop is left, and start ends with the
   connection closed. *)
C16_CloseUnblocksReceive ==
    /\ (pc = "receiving" /\ websocket = "closed") ~> (pc = "done" /\ websocket = "closed")
    /\ [][websocket = "closed" =>
            /\ last'.op # "receive"
            /\ pc = "receiving" => pc' \in {"receiving", "closing"}]_vars

\* the connection was dropped under the waiting loop, after a reply had been
\* sent, and the pending receive has ended
C16_Witness ==
    /\ pc = "closing"
    /\ websocket = "closed"
    /\ last.op = "recvend"
    /\ last.exc = "ConnectionClosed"
    /\ Len(sent) = 2

(* C17: the stored context is last-write-wins and is replaced before
   dispatch: it always equals the context value of the most recent inbound
   message that carried one; the controller is handed that value, so the
   reply to a willAppear carrying a context uses the message's context; and
   the stored context changes only in the step that receives a message
   carrying a context value, to that value. *)
C17_ContextLastWriteWinsBeforeDispatch ==
    /\ [](/\ context = carried
          /\ Dispatched => last.call.context = carried
          /\ (/\ last.op = "receive"
              /\ last.call # NoCall
              /\ last.msg.context \in ContextValues) =>
                 /\ last.call.context = last.msg.context
                 /\ last.call.reply # NoReply => last.call.reply.context = last.msg.context)
    /\ [][context' # context =>
            /\ last'.op = "receive"
            /\ last'.msg.kind = "object"
            /\ last'.msg.context \in ContextValues
            /\ context' = last'.msg.context]_vars

\* a willAppear carrying context "b" arrives while "a" is stored and is
\* answered with "b"
C17_Witness ==
    /\ last.op = "receive"
    /\ last.msg.kind = "object"
    /\ last.msg.event = "willAppear"
    /\ last.msg.context = "b"
    /\ last.before = "a"
    /\ context = "b"
    /\ Len(sent) = 3
    /\ sent[3] = SetState("b", device)

(* C18: a dispatched event produces zero or one outbound message and every
   outbound message other than the registration is a setState: the frames
   written on a connection are the registration followed by setState
   messages only, never more of them than operations were started; a step
   writes at most one frame, and a step other than the registration writes
   one only when it handles a willAppear, received or produced by
   notify_state_change, whose dispatch raised nothing; a keyUp, an unknown
   event and a failing message write none. *)
C18_AtMostOneSetStatePerWillAppear ==
    /\ [](/\ \A i \in 1..Len(sent) :
                IF i = 1 THEN sent[i] = RegistrationMessage
                ELSE sent[i].event = "setState"
          /\ Len(sent) <= nops)
    /\ [][/\ sent' # sent =>
              \/ pc = "connecting" /\ sent' = <<RegistrationMessage>>
              \/ /\ last'.op \in {"receive", "notify"}
                 /\ last'.msg.kind = "object"
                 /\ last'.msg.event = "willAppear"
                 /\ last'.call.exc = None
                 /\ last'.logged = None
                 /\ \E c \in ContextValues, st \in States :
                        sent' = Append(sent, SetState(c, st))
          /\ (/\ last'.op = "receive"
              /\ \/ last'.msg.kind # "object"
                 \/ last'.msg.event # "willAppear"
                 \/ last'.call = NoCall
                 \/ last'.call.exc # None) => sent' = sent]_vars

\* after a willAppear was answered, a keyUp, an unknown event or a failing
\* message has been handled and the connection still carries the
\* registration and the one setState
C18_Witness ==
    /\ last.op = "receive"
    /\ last.msg.kind = "object"
    /\ last.msg.event # "willAppear"
    /\ nops = 3
    /\ Len(sent) = 2
    /\ sent[2].event = "setState"

(* C19: the context update of a message is not rolled back when its
   handling fails afterwards: the step that receives a parseable message
   carrying a context value and fails in dispatch (no event field, or a
   device error during keyUp or willAppear) still leaves that value stored,
   logs the failure and keeps the loop running; and an event that carries no
   context, such as the one made by notify_state_change, is handled with the
   value stored before it. *)
C19_ContextKeptWhenDispatchFails ==
    [][/\ (/\ last'.op = "receive"
           /\ last'.msg.kind = "object"
           /\ last'.msg.context \in ContextValues
           /\ last'.call # NoCall
           /\ last'.call.exc # None) =>
              /\ last'.call.exc \in {"KeyError", "DeviceError"}
              /\ context' = last'.msg.context
              /\ last'.logged = last'.call.exc
              /\ pc' = "receiving"
       /\ (/\ last'.op \in {"receive", "notify"}
           /\ last'.call # NoCall
           /\ last'.msg.context \notin ContextValues) =>
              /\ last'.call.context = context
              /\ context' = context]_vars

\* the only message received carried context "a" and failed in dispatch;
\* notify_state_change then reported with "a"
C19_Witness ==
    /\ errorLogged
    /\ nops = 3
    /\ last.op = "notify"
    /\ last.exc = None
    /\ npc = "sending"
    /\ last.call.context = "a"
    /\ Len(sent) = 2
    /\ sent[2] = SetState("a", device)

(* C20: a stored context is never reset to absent: once set it stays set in
   every later step, the close of the connection and a further start
   included; so a notify_state_change made while the connection is closed
   passes the context assertion with the stored value and, unless the device
   fails first, attempts the send and raises ConnectionClosed to its
   caller, writing nothing. *)
C20_ContextNeverReset ==
    /\ [][context # None => context' # None]_vars
    /\ []((/\ last.op = "notify"
           /\ last.before # None
           /\ websocket = "closed") =>
              /\ last.call # NoCall
              /\ last.call.context = last.before
              /\ context = last.before
              /\ last.exc = IF last.call.exc = None THEN "ConnectionClosed"
                            ELSE last.call.exc
              /\ npc = "idle")

\* the connection was closed, start was called again, and a
\* notify_state_change made before the new connection exists used the
\* context of the previous session and raised
C20_Witness ==
    /\ pc = "connecting"
    /\ websocket = "closed"
    /\ last.op = "notify"
    /\ last.exc = "ConnectionClosed"
    /\ last.call.context = "a"
    /\ context = "a"

====
